---- MODULE Spec2Model ----
(***************************************************************************)
(* Steam games analysis: the normalizer (data_processor.py) and the five   *)
(* query functions (analysis_functions.py).                                *)
(*                                                                         *)
(* Text is a sequence of one-character strings, so that parsing, substring *)
(* search and splitting are computed character by character.  A float is   *)
(* a fixed-point number in hundredths (9.99 is 999); NaN and NaT are       *)
(* explicit markers.  Numeric texts of the inputs carry at most two        *)
(* fractional digits, no exponent and no surrounding blanks, and counters   *)
(* stay within int64.  A genre token holds letters, digits, blanks, '-',   *)
(* '.', '(' and ')'.  The pandas operations behave as in pandas 1.x/2.x    *)
(* with object columns and without Copy-on-Write: astype(str) makes a      *)
(* missing value the text 'nan', and a chained in-place fillna reaches the *)
(* frame.                                                                  *)
(***************************************************************************)
EXTENDS Integers, Sequences, FiniteSets, TLC

VARIABLES
    raw,     \* the rows of the CSV file, each field as its text
    header,  \* the header line of the CSV file: the text heading each column
    df,      \* the canonical table load_and_preprocess_data returned
    columns, \* the labels of the canonical table, one for each column
    pc,      \* "start" before the load, "loaded" after it
    last,    \* the query called last: "none", "Q1" .. "Q5"
    result   \* what that call returned, or the exception it raised

vars == <<raw, header, df, columns, pc, last, result>>

(***************************************************************************)
(* Characters and text                                                     *)
(***************************************************************************)
Digits == {"0", "1", "2", "3", "4", "5", "6", "7", "8", "9"}

DigitVal ==
    ("0" :> 0) @@ ("1" :> 1) @@ ("2" :> 2) @@ ("3" :> 3) @@ ("4" :> 4) @@
    ("5" :> 5) @@ ("6" :> 6) @@ ("7" :> 7) @@ ("8" :> 8) @@ ("9" :> 9)

DigitChar == <<"0", "1", "2", "3", "4", "5", "6", "7", "8", "9">>

UpperToLower ==
    ("A" :> "a") @@ ("B" :> "b") @@ ("C" :> "c") @@ ("D" :> "d") @@
    ("E" :> "e") @@ ("F" :> "f") @@ ("G" :> "g") @@ ("H" :> "h") @@
    ("I" :> "i") @@ ("J" :> "j") @@ ("K" :> "k") @@ ("L" :> "l") @@
    ("M" :> "m") @@ ("N" :> "n") @@ ("O" :> "o") @@ ("P" :> "p") @@
    ("Q" :> "q") @@ ("R" :> "r") @@ ("S" :> "s") @@ ("T" :> "t") @@
    ("U" :> "u") @@ ("V" :> "v") @@ ("W" :> "w") @@ ("X" :> "x") @@
    ("Y" :> "y") @@ ("Z" :> "z")

LowerChar(c) == IF c \in DOMAIN UpperToLower THEN UpperToLower[c] ELSE c

LowerText(s) == [i \in 1..Len(s) |-> LowerChar(s[i])]

IsSpace(c) == c = " "

AllDigits(s) == \A i \in 1..Len(s) : s[i] \in Digits

\* value of a run of decimal digits (0 for the empty run)
RECURSIVE DigitsToNat(_)
DigitsToNat(s) ==
    IF s = <<>> THEN 0
    ELSE 10 * DigitsToNat(SubSeq(s, 1, Len(s) - 1)) + DigitVal[s[Len(s)]]

\* str(n) of a natural number
RECURSIVE NatToText(_)
NatToText(n) ==
    IF n < 10 THEN <<DigitChar[n + 1]>>
    ELSE Append(NatToText(n \div 10), DigitChar[(n % 10) + 1])

\* str.strip(): leading and trailing blanks removed
RECURSIVE StripText(_)
StripText(s) ==
    IF s = <<>> THEN s
    ELSE IF IsSpace(s[1]) THEN StripText(Tail(s))
    ELSE IF IsSpace(s[Len(s)]) THEN StripText(SubSeq(s, 1, Len(s) - 1))
    ELSE s

\* first index >= i of s whose character is not a blank (Len(s)+1 if none)
RECURSIVE SkipSpaces(_, _)
SkipSpaces(s, i) ==
    IF i <= Len(s) /\ IsSpace(s[i]) THEN SkipSpaces(s, i + 1) ELSE i

\* first index >= i of s whose character is not a digit (Len(s)+1 if none)
RECURSIVE SkipDigits(_, _)
SkipDigits(s, i) ==
    IF i <= Len(s) /\ s[i] \in Digits THEN SkipDigits(s, i + 1) ELSE i

\* str.split(';|,'): the pieces of a text between the delimiters
RECURSIVE SplitGenres(_)
SplitGenres(s) ==
    LET cut == {i \in 1..Len(s) : s[i] \in {";", ","}}
    IN  IF cut = {} THEN <<s>>
        ELSE LET k == CHOOSE i \in cut : \A j \in cut : i <= j
             IN  <<SubSeq(s, 1, k - 1)>> \o SplitGenres(SubSeq(s, k + 1, Len(s)))

(***************************************************************************)
(* Values: floats (hundredths) with NaN, dates with NaT, cells of the      *)
(* frame returned by pd.read_csv                                           *)
(***************************************************************************)
NaN == [nan |-> TRUE, v |-> 0]

Float(v) == [nan |-> FALSE, v |-> v]

NaT == [nat |-> TRUE, y |-> 0, m |-> 0, d |-> 0]

Date(y, m, d) == [nat |-> FALSE, y |-> y, m |-> m, d |-> d]

\* a cell: k is "nan", "int", "float", "bool" or "str"; n the number (a float
\* in hundredths, a bool as 0/1), s the text of a "str" cell
NanCell == [k |-> "nan", n |-> 0, s |-> <<>>]

IntCell(n) == [k |-> "int", n |-> n, s |-> <<>>]

FloatCell(v) == [k |-> "float", n |-> v, s |-> <<>>]

BoolCell(b) == [k |-> "bool", n |-> IF b THEN 1 ELSE 0, s |-> <<>>]

StrCell(s) == [k |-> "str", n |-> 0, s |-> s]

(***************************************************************************)
(* pd.read_csv: NA strings, numbers and the dtype it infers per column     *)
(***************************************************************************)
\* texts read_csv takes for a missing value (of its default na_values)
NaStrings ==
    { <<>>, <<"N", "A">>, <<"N", "/", "A">>, <<"N", "a", "N">>, <<"n", "a", "n">>, <<"n", "u", "l", "l">> }

TrueTexts == { <<"T", "r", "u", "e">>, <<"T", "R", "U", "E">>, <<"t", "r", "u", "e">> }

FalseTexts == { <<"F", "a", "l", "s", "e">>, <<"F", "A", "L", "S", "E">>, <<"f", "a", "l", "s", "e">> }

\* a decimal numeral: [sign] digits ["." digits]; v is its value in hundredths
ParseNumber(s) ==
    LET n      == Len(s)
        signed == n >= 1 /\ s[1] \in {"-", "+"}
        i0     == IF signed THEN 2 ELSE 1
        i1     == SkipDigits(s, i0)
        hasDot == i1 <= n /\ s[i1] = "."
        i2     == IF hasDot THEN SkipDigits(s, i1 + 1) ELSE i1
        whole  == SubSeq(s, i0, i1 - 1)
        frac   == IF hasDot THEN SubSeq(s, i1 + 1, i2 - 1) ELSE <<>>
        frac2  == SubSeq(frac \o <<"0", "0">>, 1, 2)
        mag    == 100 * DigitsToNat(whole) + DigitsToNat(frac2)
    IN  [ok    |-> i2 = n + 1 /\ Len(whole) + Len(frac) >= 1,
         isint |-> ~hasDot,
         v     |-> IF signed /\ s[1] = "-" THEN 0 - mag ELSE mag]

Column(rows, c) == {rows[i][c] : i \in 1..Len(rows)}

\* the dtype read_csv gives column c: int64, float64, bool, else object
ColumnDtype(rows, c) ==
    LET present == Column(rows, c) \ NaStrings
        hasNa   == Column(rows, c) \cap NaStrings # {}
    IN  IF Len(rows) = 0 THEN "object"
        ELSE IF ~hasNa /\ \A s \in present : ParseNumber(s).ok /\ ParseNumber(s).isint
             THEN "int64"
        ELSE IF \A s \in present : ParseNumber(s).ok THEN "float64"
        ELSE IF \A s \in present : s \in TrueTexts \cup FalseTexts
             THEN IF hasNa THEN "object_bool" ELSE "bool"
        ELSE "object"

ReadCell(rows, c, i) ==
    LET s  == rows[i][c]
        dt == ColumnDtype(rows, c)
    IN  IF s \in NaStrings THEN NanCell
        ELSE IF dt = "int64" THEN IntCell(ParseNumber(s).v \div 100)
        ELSE IF dt = "float64" THEN FloatCell(ParseNumber(s).v)
        ELSE IF dt \in {"bool", "object_bool"} THEN BoolCell(s \in TrueTexts)
        ELSE StrCell(s)

\* df = pd.read_csv(filepath): one row of cells per raw row, in file order
ReadCsv(rows) ==
    [i \in 1..Len(rows) |-> [c \in DOMAIN rows[i] |-> ReadCell(rows, c, i)]]

(***************************************************************************)
(* pandas conversions the normalizer and the queries apply                 *)
(***************************************************************************)
MonthAbbr ==
    << <<"j", "a", "n">>,
       <<"f", "e", "b">>,
       <<"m", "a", "r">>,
       <<"a", "p", "r">>,
       <<"m", "a", "y">>,
       <<"j", "u", "n">>,
       <<"j", "u", "l">>,
       <<"a", "u", "g">>,
       <<"s", "e", "p">>,
       <<"o", "c", "t">>,
       <<"n", "o", "v">>,
       <<"d", "e", "c">> >>

IsLeap(y) == (y % 4 = 0 /\ y % 100 # 0) \/ y % 400 = 0

DaysInMonth(y, m) ==
    IF m = 2 THEN (IF IsLeap(y) THEN 29 ELSE 28)
    ELSE IF m \in {4, 6, 9, 11} THEN 30 ELSE 31

DateOrd(d) == d.y * 10000 + d.m * 100 + d.d

\* the days a nanosecond Timestamp can hold: 1677-09-22 .. 2262-04-11
InTimestampBounds(y, m, d) ==
    LET o == y * 10000 + m * 100 + d IN o >= 16770922 /\ o <= 22620411

\* strptime with format '%b %d, %Y' on the whole text, NaT when it does not match
ParseDate(s) ==
    LET n    == Len(s)
        mon  == IF n >= 3 THEN LowerText(SubSeq(s, 1, 3)) ELSE <<>>
        m    == IF \E k \in 1..12 : MonthAbbr[k] = mon
                THEN CHOOSE k \in 1..12 : MonthAbbr[k] = mon ELSE 0
        a    == SkipSpaces(s, 4)
        b    == SkipDigits(s, a)
        day  == SubSeq(s, a, b - 1)
        c    == SkipSpaces(s, b + 1)
        year == SubSeq(s, c, n)
        d    == DigitsToNat(day)
        y    == DigitsToNat(year)
    IN  IF /\ m # 0
           /\ a > 4
           /\ Len(day) \in {1, 2} /\ d \in 1..31
           /\ b <= n /\ s[b] = ","
           /\ c > b + 1
           /\ Len(year) = 4 /\ AllDigits(year)
           /\ d <= DaysInMonth(y, m)
           /\ InTimestampBounds(y, m, d)
        THEN Date(y, m, d) ELSE NaT

\* pd.to_datetime(col, errors='coerce', format='%b %d, %Y') on one cell
ToDatetime(cell) == IF cell.k = "str" THEN ParseDate(cell.s) ELSE NaT

\* col.dt.year on one value
DtYear(date) == IF date.nat THEN NaN ELSE Float(100 * date.y)

\* as ToNumeric, a value that does not parse defaulted to 0
ToNumeric_ZeroDefault(cell) ==
    IF cell.k \in {"int", "bool"} THEN Float(100 * cell.n)
    ELSE IF cell.k = "float" THEN Float(cell.n)
    ELSE IF cell.k = "str" /\ ParseNumber(cell.s).ok THEN Float(ParseNumber(cell.s).v)
    ELSE Float(0)

\* pd.to_numeric(col, errors='coerce') on one cell
ToNumeric(cell) ==
    IF cell.k = "nan" THEN NaN
    ELSE IF cell.k = "int" THEN Float(100 * cell.n)
    ELSE IF cell.k = "float" THEN Float(cell.n)
    ELSE IF cell.k = "bool" THEN Float(100 * cell.n)
    ELSE IF ParseNumber(cell.s).ok THEN Float(ParseNumber(cell.s).v) ELSE NaN

FillNa(x, v) == IF x.nan THEN Float(v) ELSE x

\* col.astype(bool) on one cell: NaN and every non-empty text are truthy
AsTypeBool(cell) ==
    IF cell.k = "nan" THEN TRUE
    ELSE IF cell.k = "str" THEN cell.s # <<>>
    ELSE cell.n # 0

IntRepr(n) == IF n < 0 THEN <<"-">> \o NatToText(0 - n) ELSE NatToText(n)

\* repr of a float given in hundredths: 5.0, 5.5, 5.25
FloatRepr(v) ==
    LET mag  == IF v < 0 THEN 0 - v ELSE v
        frac == mag % 100
        ftxt == IF frac % 10 = 0 THEN NatToText(frac \div 10)
                ELSE <<DigitChar[(frac \div 10) + 1], DigitChar[(frac % 10) + 1]>>
    IN  (IF v < 0 THEN <<"-">> ELSE <<>>) \o NatToText(mag \div 100) \o <<".">> \o ftxt

\* col.astype(str) on one cell
AsTypeStr(cell) ==
    IF cell.k = "nan" THEN <<"n", "a", "n">>
    ELSE IF cell.k = "int" THEN IntRepr(cell.n)
    ELSE IF cell.k = "float" THEN FloatRepr(cell.n)
    ELSE IF cell.k = "bool" THEN (IF cell.n = 1 THEN <<"T", "r", "u", "e">> ELSE <<"F", "a", "l", "s", "e">>)
    ELSE cell.s

IsDigitChar(c) == c \in Digits

\* astype(str), every non-digit removed, to_numeric, fillna(0), astype(int)
CleanCounter(cell) == DigitsToNat(SelectSeq(AsTypeStr(cell), IsDigitChar))

\* owner_str.replace(',', '')
RemoveCommas(s) == SelectSeq(s, LAMBDA c : c # ",")

\* as FirstPart, the last part taken: the upper end of the range
FirstPart_Last(s) ==
    LET cut == {i \in 1..(Len(s) - 2) : SubSeq(s, i, i + 2) = <<" ", "-", " ">>}
    IN  IF cut = {} THEN s
        ELSE SubSeq(s, (CHOOSE i \in cut : \A j \in cut : j <= i) + 3, Len(s))

\* s.split(' - ')[0]: the text before the first ' - ', all of it if there is none
FirstPart(s) ==
    LET cut == {i \in 1..(Len(s) - 2) : SubSeq(s, i, i + 2) = <<" ", "-", " ">>}
    IN  IF cut = {} THEN s
        ELSE SubSeq(s, 1, (CHOOSE i \in cut : \A j \in cut : i <= j) - 1)

\* float(text), NaN standing for the ValueError the caller turns into np.nan:
\* blanks around the numeral are ignored
PyFloat(s) ==
    IF ParseNumber(StripText(s)).ok THEN Float(ParseNumber(StripText(s)).v) ELSE NaN

\* clean_estimated_owners on one cell: NaN unless the cell is a text
clean_estimated_owners(cell) ==
    IF cell.k # "str" THEN NaN ELSE PyFloat(FirstPart(RemoveCommas(cell.s)))

(***************************************************************************)
(* The column labels: step 1 of the normalizer                             *)
(***************************************************************************)
L_positive == <<"p", "o", "s", "i", "t", "i", "v", "e">>

L_negative == <<"n", "e", "g", "a", "t", "i", "v", "e">>

L_publisher_name == <<"p", "u", "b", "l", "i", "s", "h", "e", "r", "_", "n", "a", "m", "e">>

L_game_publisher == <<"g", "a", "m", "e", "_", "p", "u", "b", "l", "i", "s", "h", "e", "r">>

L_developer_name == <<"d", "e", "v", "e", "l", "o", "p", "e", "r", "_", "n", "a", "m", "e">>

L_game_developer == <<"g", "a", "m", "e", "_", "d", "e", "v", "e", "l", "o", "p", "e", "r">>

L_positive_reviews == <<"p", "o", "s", "i", "t", "i", "v", "e", "_", "r", "e", "v", "i", "e", "w", "s">>

L_negative_reviews == <<"n", "e", "g", "a", "t", "i", "v", "e", "_", "r", "e", "v", "i", "e", "w", "s">>

L_publisher == <<"p", "u", "b", "l", "i", "s", "h", "e", "r">>

L_developer == <<"d", "e", "v", "e", "l", "o", "p", "e", "r">>

L_publishers == <<"p", "u", "b", "l", "i", "s", "h", "e", "r", "s">>

L_developers == <<"d", "e", "v", "e", "l", "o", "p", "e", "r", "s">>

\* str.replace(' ', '_', regex=False)
ReplaceSpaces(s) == [i \in 1..Len(s) |-> IF s[i] = " " THEN "_" ELSE s[i]]

\* df.columns.str.lower().str.strip().str.replace(' ', '_', regex=False)
CleanColumnName(h) == ReplaceSpaces(StripText(LowerText(h)))

column_rename_map ==
    (L_positive :> L_positive_reviews) @@ (L_negative :> L_negative_reviews) @@
    (L_publisher_name :> L_publisher) @@ (L_game_publisher :> L_publisher) @@
    (L_developer_name :> L_developer) @@ (L_game_developer :> L_developer)

\* df.rename(columns=...): a label of the map is replaced, any other is kept
RenameColumn(c) == IF c \in DOMAIN column_rename_map THEN column_rename_map[c] ELSE c

\* the labels of the frame after step 1, column by column
CanonicalColumns(h) == [f \in DOMAIN h |-> RenameColumn(CleanColumnName(h[f]))]

\* label in df.columns
HasColumn(cols, label) == \E f \in DOMAIN cols : cols[f] = label

\* what a function returns, or the KeyError of its lookup of a label the
\* frame does not have
LookUp(cols, labels, returned) ==
    IF \A label \in labels : HasColumn(cols, label) THEN returned
    ELSE [raised |-> TRUE, error |-> "KeyError", value |-> <<>>]

(***************************************************************************)
(* The normalizer: data_processor.load_and_preprocess_data                 *)
(***************************************************************************)
\* steps 2 of the normalizer on the cells of one row
NormalizeRow(cells) ==
    [name             |-> cells.name,
     release_date     |-> ToDatetime(cells.release_date),
     release_year     |-> DtYear(ToDatetime(cells.release_date)),
     price            |-> FillNa(ToNumeric(cells.price), 0),
     windows          |-> AsTypeBool(cells.windows),
     mac              |-> AsTypeBool(cells.mac),
     linux            |-> AsTypeBool(cells.linux),
     dlc_count        |-> CleanCounter(cells.dlc_count),
     positive_reviews |-> CleanCounter(cells.positive_reviews),
     negative_reviews |-> CleanCounter(cells.negative_reviews),
     screenshots      |-> CleanCounter(cells.screenshots),
     movies           |-> CleanCounter(cells.movies),
     estimated_owners |-> FillNa(clean_estimated_owners(cells.estimated_owners), 0),
     metacritic_score |-> ToNumeric(cells.metacritic_score),
     genres           |-> StripText(AsTypeStr(cells.genres)),
     categories       |-> StripText(AsTypeStr(cells.categories)),
     tags             |-> StripText(AsTypeStr(cells.tags)),
     publishers       |-> cells.publishers,
     developers       |-> cells.developers]

\* as PreprocessRows, the rows without a release date dropped (dropna)
PreprocessRows_DropUndated(cells) ==
    SelectSeq([i \in 1..Len(cells) |-> NormalizeRow(cells[i])], LAMBDA r : ~r.release_date.nat)

\* every column conversion is element-wise: the frame keeps its rows and their order
PreprocessRows(cells) == [i \in 1..Len(cells) |-> NormalizeRow(cells[i])]

load_and_preprocess_data(rows) == PreprocessRows(ReadCsv(rows))

(***************************************************************************)
(* Query results: a returned value or a raised exception                   *)
(***************************************************************************)
Ok(v) == [raised |-> FALSE, error |-> "", value |-> v]

Raise(e) == [raised |-> TRUE, error |-> e, value |-> <<>>]

\* a pandas DataFrame: its column labels and its rows, in order
Frame(cols, rows) == [columns |-> cols, rows |-> rows]

\* as CallerFrame, without the copy: the query works on the frame of the caller
CallerFrame_Shared(t, df_filtered) == df_filtered

\* df_filtered = df.copy(): a query assigns columns and drops rows in a frame of
\* its own, so the frame t of the caller is after the call what it was before
CallerFrame(t, df_filtered) == t

\* as HeadRows, the cut at n left out
HeadRows_NoCut(s, n) == s

\* df.head(n)
HeadRows(s, n) == SubSeq(s, 1, IF Len(s) < n THEN Len(s) ELSE n)

(***************************************************************************)
(* Q1: get_top_10_metacritic_games                                         *)
(***************************************************************************)
TopN == 10

HasScore(r) == ~r.metacritic_score.nan

HasDate(r) == ~r.release_date.nat

\* as Q1Before, equal scores ordered newest first (ascending=[False, False])
Q1Before_NewestFirst(a, b) ==
    \/ a.metacritic_score.v > b.metacritic_score.v
    \/ /\ a.metacritic_score.v = b.metacritic_score.v
       /\ DateOrd(a.release_date) > DateOrd(b.release_date)

\* the order of sort_values(by=[score, date], ascending=[False, True])
Q1Before(a, b) ==
    \/ a.metacritic_score.v > b.metacritic_score.v
    \/ /\ a.metacritic_score.v = b.metacritic_score.v
       /\ DateOrd(a.release_date) < DateOrd(b.release_date)

\* as Q1Insert, r put before the rows of its own score and date as well
Q1Insert_Unstable(s, r) ==
    LET before == {i \in 1..Len(s) : ~Q1Before(s[i], r)}
        k      == IF before = {} THEN Len(s) + 1
                  ELSE CHOOSE i \in before : \A j \in before : i <= j
    IN  SubSeq(s, 1, k - 1) \o <<r>> \o SubSeq(s, k, Len(s))

\* r put into the sorted s before the first row it precedes: equal keys keep
\* their order (sort_values on several keys is a stable sort)
Q1Insert(s, r) ==
    LET before == {i \in 1..Len(s) : Q1Before(r, s[i])}
        k      == IF before = {} THEN Len(s) + 1
                  ELSE CHOOSE i \in before : \A j \in before : i <= j
    IN  SubSeq(s, 1, k - 1) \o <<r>> \o SubSeq(s, k, Len(s))

RECURSIVE Q1Sort(_)
Q1Sort(s) ==
    IF s = <<>> THEN <<>>
    ELSE Q1Insert(Q1Sort(SubSeq(s, 1, Len(s) - 1)), s[Len(s)])

Q1Columns == <<"name", "metacritic_score", "release_date", "publishers", "developers">>

Q1Project(r) ==
    [name             |-> r.name,
     metacritic_score |-> r.metacritic_score.v,
     release_date     |-> r.release_date,
     publishers       |-> r.publishers,
     developers       |-> r.developers]

\* df_filtered after the two dropna(subset=..., inplace=True)
Q1Filtered(t) == SelectSeq(SelectSeq(t, HasScore), HasDate)

get_top_10_metacritic_games(t) ==
    LET df_filtered == Q1Filtered(t)
        top_games   == HeadRows(Q1Sort(df_filtered), TopN)
    IN  Ok(Frame(Q1Columns, [i \in 1..Len(top_games) |-> Q1Project(top_games[i])]))

(***************************************************************************)
(* Q4: check_linux_support_growth                                          *)
(***************************************************************************)
YearFrom == 2018

YearTo == 2022

Q4Columns == <<"release_year", "num_linux_games">>

\* as InLinuxPeriod, the test of the linux column left out
InLinuxPeriod_AnyPlatform(r) ==
    /\ ~DtYear(r.release_date).nan
    /\ DtYear(r.release_date).v >= 100 * YearFrom
    /\ DtYear(r.release_date).v <= 100 * YearTo

\* release_year is taken anew from release_date; a comparison with NaN is false
InLinuxPeriod(r) ==
    /\ r.linux
    /\ ~DtYear(r.release_date).nan
    /\ DtYear(r.release_date).v >= 100 * YearFrom
    /\ DtYear(r.release_date).v <= 100 * YearTo

CountYear(s, y) == Cardinality({i \in 1..Len(s) : DtYear(s[i].release_date).v = 100 * y})

\* the members of a set of integers, ascending
RECURSIVE Ascending(_)
Ascending(S) ==
    IF S = {} THEN <<>>
    ELSE LET m == CHOOSE x \in S : \A z \in S : x <= z
         IN  <<m>> \o Ascending(S \ {m})

\* value_counts().sort_index().reset_index(): one row per observed year, ascending
YearCounts(s) ==
    LET years == Ascending({DtYear(s[i].release_date).v \div 100 : i \in 1..Len(s)})
    IN  [k \in 1..Len(years) |->
            [release_year |-> years[k], num_linux_games |-> CountYear(s, years[k])]]

\* as MergeYears, with how='inner': a year without a count gets no row
MergeYears_Inner(y, hi, growth) ==
    SelectSeq(growth, LAMBDA g : g.release_year >= y /\ g.release_year <= hi)

\* pd.merge(full_year_range, linux_growth, how='left').fillna(0): the rows of the
\* left frame in order, each with its matches on the right, or with 0 if none
RECURSIVE MergeYears(_, _, _)
MergeYears(y, hi, growth) ==
    IF y > hi THEN <<>>
    ELSE LET hits == SelectSeq(growth, LAMBDA g : g.release_year = y)
         IN  (IF hits = <<>> THEN <<[release_year |-> y, num_linux_games |-> 0]>>
              ELSE hits) \o MergeYears(y + 1, hi, growth)

\* df_filtered: release_year taken anew from release_date, linux.astype(bool)
Q4Filtered(t) ==
    [i \in 1..Len(t) |-> [t[i] EXCEPT !.release_year = DtYear(t[i].release_date)]]

check_linux_support_growth(t) ==
    LET linux_games_period == SelectSeq(t, InLinuxPeriod)
    IN  IF linux_games_period = <<>>
        THEN Ok(Frame(Q4Columns, <<>>))
        ELSE Ok(Frame(Q4Columns,
                      MergeYears(YearFrom, YearTo,
                                 YearCounts(linux_games_period))))

(***************************************************************************)
(* Q2: analyze_role_playing_games_metrics                                  *)
(***************************************************************************)
\* a pattern of literal characters and '.', matched at position i, case ignored
RegexMatchAt(text, i, pat) ==
    /\ i + Len(pat) - 1 <= Len(text)
    /\ \A k \in 1..Len(pat) :
          \/ pat[k] = "."
          \/ LowerChar(text[i + k - 1]) = LowerChar(pat[k])

\* re.search from position i on: the first position where an alternative matches
RECURSIVE RegexSearchFrom(_, _, _)
RegexSearchFrom(text, i, alts) ==
    IF i > Len(text) + 1 THEN FALSE
    ELSE IF \E a \in 1..Len(alts) : RegexMatchAt(text, i, alts[a]) THEN TRUE
    ELSE RegexSearchFrom(text, i + 1, alts)

\* Series.str.contains(alt1|alt2|..., case=False) on one text
StrContains(text, alts) == RegexSearchFrom(text, 1, alts)

\* the pattern 'RPG|Role-playing'
RpgPattern == << <<"R", "P", "G">>, <<"R", "o", "l", "e", "-", "p", "l", "a", "y", "i", "n", "g">> >>

\* as IsRpgGame, a split token compared with the keywords instead of a search
IsRpgGame_ExactToken(r) ==
    LET parts == SplitGenres(r.genres)
    IN  \E i \in 1..Len(parts), a \in 1..Len(RpgPattern) :
           LowerText(StripText(parts[i])) = LowerText(RpgPattern[a])

IsRpgGame(r) == StrContains(r.genres, RpgPattern)

RECURSIVE SumOf(_)
SumOf(s) == IF s = <<>> THEN 0 ELSE s[1] + SumOf(Tail(s))

\* as MaxOf, the first value taken for the largest
MaxOf_First(s) == s[1]

\* Series.max()
MaxOf(s) == CHOOSE x \in {s[i] : i \in 1..Len(s)} : \A i \in 1..Len(s) : s[i] <= x

\* Series.mean() as the fraction sum / count
MeanOf(s) == [num |-> SumOf(s), den |-> Len(s)]

MetricOf(s) == [media |-> MeanOf(s), maximo |-> MaxOf(s)]

\* df_filtered: genres.astype(str) of a column of texts
Q2Filtered(t) == [i \in 1..Len(t) |-> [t[i] EXCEPT !.genres = AsTypeStr(StrCell(@))]]

NoRpgMessage == "Nenhum jogo de role-playing encontrado com dados validos para analise."

\* as analyze_role_playing_games_metrics, without the test of rpg_games.empty:
\* mean and max of no record are NaN
analyze_role_playing_games_metrics_NoEmptyCheck(t) ==
    LET rpg_games == SelectSeq(t, IsRpgGame)
        col(f(_)) == [i \in 1..Len(rpg_games) |-> f(rpg_games[i])]
        metric(s) == IF s = <<>> THEN [media |-> [num |-> 0, den |-> 0], maximo |-> 0]
                     ELSE MetricOf(s)
    IN  Ok([dlc_count            |-> metric(col(LAMBDA r : r.dlc_count)),
            positive_reviews     |-> metric(col(LAMBDA r : r.positive_reviews)),
            negative_reviews     |-> metric(col(LAMBDA r : r.negative_reviews)),
            total_demo_materials |-> metric(col(LAMBDA r : r.screenshots + r.movies))])

analyze_role_playing_games_metrics(t) ==
    LET rpg_games == SelectSeq(t, IsRpgGame)
        col(f(_)) == [i \in 1..Len(rpg_games) |-> f(rpg_games[i])]
    IN  IF rpg_games = <<>>
        THEN Ok([message |-> NoRpgMessage])
        ELSE Ok([dlc_count            |-> MetricOf(col(LAMBDA r : r.dlc_count)),
                 positive_reviews     |-> MetricOf(col(LAMBDA r : r.positive_reviews)),
                 negative_reviews     |-> MetricOf(col(LAMBDA r : r.negative_reviews)),
                 total_demo_materials |-> MetricOf(col(LAMBDA r : r.screenshots + r.movies))])

(***************************************************************************)
(* value_counts().nlargest(n): the n most frequent keys, most frequent     *)
(* first.  pandas does not document which of several keys with the same    *)
(* count comes first or is kept at the cut, so every such order is allowed *)
(***************************************************************************)
\* the orders of the n most frequent keys of a set: a most frequent key first,
\* then the orders of the n - 1 most frequent of the others
RECURSIVE TopFrom(_, _, _)
TopFrom(cnt, keys, n) ==
    IF n = 0 \/ keys = {} THEN {<<>>}
    ELSE LET best == {x \in keys : \A z \in keys : cnt[z] <= cnt[x]}
         IN  UNION {{<<x>> \o p : p \in TopFrom(cnt, keys \ {x}, n - 1)} : x \in best}

\* as TopChoices, every key kept: the cut at n left out
TopChoices_NoCut(cnt, n) == TopFrom(cnt, DOMAIN cnt, Cardinality(DOMAIN cnt))

\* cnt maps each key to its count
TopChoices(cnt, n) == TopFrom(cnt, DOMAIN cnt, n)

\* the values of a sequence of integers, ascending, duplicates kept
RECURSIVE SortedInts(_)
SortedInts(s) ==
    IF s = <<>> THEN <<>>
    ELSE LET m == CHOOSE i \in 1..Len(s) : \A j \in 1..Len(s) : s[i] <= s[j]
         IN  <<s[m]>> \o SortedInts(SubSeq(s, 1, m - 1) \o SubSeq(s, m + 1, Len(s)))

\* Series.median() as a fraction
MedianOf(s) ==
    LET o == SortedInts(s)
        n == Len(s)
    IN  IF n % 2 = 1 THEN [num |-> o[(n + 1) \div 2], den |-> 1]
        ELSE [num |-> o[n \div 2] + o[(n \div 2) + 1], den |-> 2]

(***************************************************************************)
(* Q3: analyze_top_paid_game_publishers                                    *)
(***************************************************************************)
TopPublishers == 5

Q3Columns ==
    <<"publishers", "num_paid_games", "avg_positive_reviews", "median_positive_reviews">>

\* as IsPaid, every price other than 0 taken for a paid game
IsPaid_NonZero(r) == ~r.price.nan /\ r.price.v # 0

\* (price > 0) & price.notna()
IsPaid(r) == ~r.price.nan /\ r.price.v > 0

PaidGames(t) == SelectSeq(t, IsPaid)

PublisherOf(r) == AsTypeStr(r.publishers)

PublisherGames(paid, publisher) == SelectSeq(paid, LAMBDA r : PublisherOf(r) = publisher)

\* df_filtered: publishers.astype(str), a missing publisher become the text 'nan'
Q3Filtered(t) ==
    [i \in 1..Len(t) |-> [t[i] EXCEPT !.publishers = StrCell(PublisherOf(t[i]))]]

\* the orders paid_games['publishers'].value_counts().nlargest(5).index may have
Q3TopPublishers(t) ==
    LET paid == PaidGames(t)
    IN  TopChoices([pb \in {PublisherOf(paid[i]) : i \in 1..Len(paid)} |->
                        Len(PublisherGames(paid, pb))], TopPublishers)

Q3Row(paid, publisher) ==
    LET games    == PublisherGames(paid, publisher)
        positive == [i \in 1..Len(games) |-> games[i].positive_reviews]
    IN  [publishers              |-> publisher,
         num_paid_games          |-> Len(games),
         avg_positive_reviews    |-> MeanOf(positive),
         median_positive_reviews |-> MedianOf(positive)]

\* top_publishers is one of Q3TopPublishers(t); it is in count order already, so
\* the closing sort_values(by='num_paid_games', ascending=False) keeps it
analyze_top_paid_game_publishers(t, top_publishers) ==
    LET paid == PaidGames(t)
    IN  IF paid = <<>> THEN Ok(Frame(Q3Columns, <<>>))
        ELSE Ok(Frame(Q3Columns,
                      [i \in 1..Len(top_publishers) |-> Q3Row(paid, top_publishers[i])]))

(***************************************************************************)
(* Q5: analyze_price_vs_recommendations_by_genre                           *)
(***************************************************************************)
TopGenres == 5

RecentAfter == 2019

Q5Columns == <<"genre", "avg_price", "avg_total_recommendations", "correlation_price_recs">>

IsRecent(r) == ~DtYear(r.release_date).nan /\ DtYear(r.release_date).v > 100 * RecentAfter

RecentGames(t) == SelectSeq(t, IsRecent)

\* df_filtered: release_year taken anew from release_date
Q5Filtered(t) ==
    [i \in 1..Len(t) |-> [t[i] EXCEPT !.release_year = DtYear(t[i].release_date)]]

\* the exploded, stripped tokens of one record
GenreTokens(r) ==
    LET parts == SplitGenres(r.genres)
    IN  [i \in 1..Len(parts) |-> StripText(parts[i])]

\* genre_counts[token]: its occurrences over all records
GenreCount(recent, token) ==
    LET occ(r) == Cardinality({i \in 1..Len(GenreTokens(r)) : GenreTokens(r)[i] = token})
    IN  SumOf([i \in 1..Len(recent) |-> occ(recent[i])])

AllGenreTokens(recent) ==
    UNION {{GenreTokens(recent[i])[k] : k \in 1..Len(GenreTokens(recent[i]))} :
               i \in 1..Len(recent)}

\* the orders genre_counts[genre_counts.index != ''].nlargest(5).index may have
Q5PopularGenres(t) ==
    LET recent == RecentGames(t)
    IN  TopChoices([g \in AllGenreTokens(recent) \ {<<>>} |-> GenreCount(recent, g)],
                   TopGenres)

TotalRecommendations(r) == r.positive_reviews + r.negative_reviews

\* re.compile accepts the token: its parentheses are balanced (a token of the
\* inputs holds letters, digits, blanks, '-', '.', '(' and ')')
RegexValid(genre) ==
    LET depth(i) == Cardinality({j \in 1..i : genre[j] = "("})
                       - Cardinality({j \in 1..i : genre[j] = ")"})
    IN  /\ \A i \in 1..Len(genre) : depth(i) >= 0
        /\ depth(Len(genre)) = 0

\* the token read as a pattern: a parenthesis opens or closes a group and
\* matches no character of the text
RegexOfToken(genre) == SelectSeq(genre, LAMBDA c : c \notin {"(", ")"})

\* the records whose unsplit genres text the token, read as a pattern, matches
GenreGames(recent, genre) ==
    SelectSeq(recent, LAMBDA r : StrContains(r.genres, <<RegexOfToken(genre)>>))

NUnique(s) == Cardinality({s[i] : i \in 1..Len(s)})

\* a correlation of 0 where the code leaves np.nan
Q5Correlation_ZeroForAbsent(x, y) ==
    [nan |-> FALSE,
     cov |-> Len(x) * SumOf([i \in 1..Len(x) |-> x[i] * y[i]]) - SumOf(x) * SumOf(y)]

\* Series.corr: absent unless computed; when computed, n*Sxy - Sx*Sy (the sign
\* of the coefficient) stands for it
Q5Correlation(x, y) ==
    IF NUnique(x) > 1 /\ NUnique(y) > 1
    THEN [nan |-> FALSE,
          cov |-> Len(x) * SumOf([i \in 1..Len(x) |-> x[i] * y[i]]) - SumOf(x) * SumOf(y)]
    ELSE [nan |-> TRUE, cov |-> 0]

Q5Row(recent, genre) ==
    LET games == GenreGames(recent, genre)
        price == [i \in 1..Len(games) |-> games[i].price.v]
        recs  == [i \in 1..Len(games) |-> TotalRecommendations(games[i])]
    IN  [genre                     |-> genre,
         avg_price                 |-> MeanOf(price),
         avg_total_recommendations |-> MeanOf(recs),
         correlation_price_recs    |-> Q5Correlation(price, recs)]

\* the rows appended by the loop, those with an empty subset skipped
RECURSIVE Q5Results(_, _)
Q5Results(recent, genres) ==
    IF genres = <<>> THEN <<>>
    ELSE (IF GenreGames(recent, genres[1]) = <<>> THEN <<>>
          ELSE <<Q5Row(recent, genres[1])>>) \o Q5Results(recent, Tail(genres))

MeanGreater(a, b) == a.num * b.den > b.num * a.den

\* sort_values(by='avg_total_recommendations', ascending=False)
Q5Insert(s, r) ==
    LET after == {i \in 1..Len(s) :
                     MeanGreater(r.avg_total_recommendations, s[i].avg_total_recommendations)}
        k     == IF after = {} THEN Len(s) + 1
                 ELSE CHOOSE i \in after : \A j \in after : i <= j
    IN  SubSeq(s, 1, k - 1) \o <<r>> \o SubSeq(s, k, Len(s))

RECURSIVE Q5Sort(_)
Q5Sort(s) ==
    IF s = <<>> THEN <<>>
    ELSE Q5Insert(Q5Sort(SubSeq(s, 1, Len(s) - 1)), s[Len(s)])

\* popular_genres is one of Q5PopularGenres(t).  str.contains compiles each
\* token as a regular expression and raises re.error on one it cannot compile.
\* pd.DataFrame([]) has no column, so sort_values(by='avg_total_recommendations')
\* on it raises KeyError
analyze_price_vs_recommendations_by_genre(t, popular_genres) ==
    LET recent  == RecentGames(t)
        results == Q5Results(recent, popular_genres)
    IN  IF recent = <<>> THEN Ok(Frame(Q5Columns, <<>>))
        ELSE IF \E i \in 1..Len(popular_genres) : ~RegexValid(popular_genres[i])
             THEN Raise("re.error")
        ELSE IF results = <<>> THEN Raise("KeyError")
        ELSE Ok(Frame(Q5Columns, Q5Sort(results)))

(***************************************************************************)
(* The program: one load, then the queries in any order                    *)
(***************************************************************************)
NoResult == Ok(<<>>)

\* df = load_and_preprocess_data(csv_path)
Load ==
    /\ pc = "start"
    /\ df' = load_and_preprocess_data(raw)
    /\ columns' = CanonicalColumns(header)
    /\ pc' = "loaded"
    /\ UNCHANGED <<raw, header, last, result>>

CallQ1 ==
    /\ pc = "loaded"
    /\ result' = LookUp(columns, {L_publishers, L_developers},
                         get_top_10_metacritic_games(df))
    /\ last' = "Q1"
    /\ df' = CallerFrame(df, Q1Filtered(df))
    /\ UNCHANGED <<raw, header, columns, pc>>

CallQ2 ==
    /\ pc = "loaded"
    /\ result' = analyze_role_playing_games_metrics(df)
    /\ last' = "Q2"
    /\ df' = CallerFrame(df, Q2Filtered(df))
    /\ UNCHANGED <<raw, header, columns, pc>>

CallQ3 ==
    /\ pc = "loaded"
    /\ \E top_publishers \in Q3TopPublishers(df) :
          result' = LookUp(columns, {L_publishers},
                           analyze_top_paid_game_publishers(df, top_publishers))
    /\ last' = "Q3"
    /\ df' = CallerFrame(df, Q3Filtered(df))
    /\ UNCHANGED <<raw, header, columns, pc>>

CallQ4 ==
    /\ pc = "loaded"
    /\ result' = check_linux_support_growth(df)
    /\ last' = "Q4"
    /\ df' = CallerFrame(df, Q4Filtered(df))
    /\ UNCHANGED <<raw, header, columns, pc>>

CallQ5 ==
    /\ pc = "loaded"
    /\ \E popular_genres \in Q5PopularGenres(df) :
          result' = analyze_price_vs_recommendations_by_genre(df, popular_genres)
    /\ last' = "Q5"
    /\ df' = CallerFrame(df, Q5Filtered(df))
    /\ UNCHANGED <<raw, header, columns, pc>>

Next == Load \/ CallQ1 \/ CallQ2 \/ CallQ3 \/ CallQ4 \/ CallQ5

\* the header line that names every column by its canonical label; of the
\* columns of the inputs, the model varies the headers of these four
PlainHeader ==
    [positive_reviews |-> L_positive_reviews, negative_reviews |-> L_negative_reviews,
     publishers       |-> L_publishers,       developers       |-> L_developers]

InitWithHeader(tables, headers) ==
    /\ raw \in tables
    /\ header \in headers
    /\ df = <<>>
    /\ columns = <<>>
    /\ pc = "start"
    /\ last = "none"
    /\ result = NoResult

InitWith(tables) == InitWithHeader(tables, {PlainHeader})


(***************************************************************************)
(* Raw inputs: the texts of the CSV fields                                 *)
(***************************************************************************)
Tables(rows, n) == UNION {[1..k -> rows] : k \in 0..n}

T_Empty == <<>>

T_Zero == <<"0">>

T_True == <<"T", "r", "u", "e">>

T_False == <<"F", "a", "l", "s", "e">>

T_Game == <<"G", "a", "m", "e">>

T_Valve == <<"V", "a", "l", "v", "e">>

T_Action == <<"A", "c", "t", "i", "o", "n">>

T_Mar_5_2018 == <<"M", "a", "r", " ", "5", ",", " ", "2", "0", "1", "8">>

T_Dec_31_2017 == <<"D", "e", "c", " ", "3", "1", ",", " ", "2", "0", "1", "7">>

T_Jun_9_2020 == <<"J", "u", "n", " ", "9", ",", " ", "2", "0", "2", "0">>

T_Dec_31_2022 == <<"D", "e", "c", " ", "3", "1", ",", " ", "2", "0", "2", "2">>

T_Jan_1_2023 == <<"J", "a", "n", " ", "1", ",", " ", "2", "0", "2", "3">>

T_Owners_0_20000 == <<"0", " ", "-", " ", "2", "0", "0", "0", "0">>

T_Single_player == <<"S", "i", "n", "g", "l", "e", "-", "p", "l", "a", "y", "e", "r">>

T_Indie == <<"I", "n", "d", "i", "e">>

\* a CSV row with nothing of interest to any query
PlainRow ==
    [name             |-> T_Game,
     release_date     |-> T_Empty,
     metacritic_score |-> T_Empty,
     price            |-> T_Zero,
     publishers       |-> T_Valve,
     developers       |-> T_Valve,
     genres           |-> T_Action,
     categories       |-> T_Single_player,
     tags             |-> T_Indie,
     estimated_owners |-> T_Owners_0_20000,
     windows          |-> T_True,
     mac              |-> T_False,
     linux            |-> T_False,
     dlc_count        |-> T_Zero,
     positive_reviews |-> T_Zero,
     negative_reviews |-> T_Zero,
     screenshots      |-> T_Zero,
     movies           |-> T_Zero]

\* rows for Q4: Linux games of 2017, 2018, 2020, 2022, 2023 and of no date, and
\* a game of 2018 without Linux support
MaxRowsQ4 == 3

RowsQ4 ==
    {[PlainRow EXCEPT !.linux = T_True, !.release_date = d] :
        d \in {T_Empty, T_Dec_31_2017, T_Mar_5_2018, T_Jun_9_2020, T_Dec_31_2022,
               T_Jan_1_2023}}
    \cup {[PlainRow EXCEPT !.release_date = T_Mar_5_2018]}

InitQ4 == InitWith(Tables(RowsQ4, MaxRowsQ4))

SpecQ4 == InitQ4 /\ [][Next]_vars


\* rows for Q1: the games A, B, C of the scenario, a game without a score, a
\* game whose date is not in the format, a game with A's score and date, and a
\* filler with A's and C's score
MaxRowsQ1 == 3

T_A == <<"A">>

T_B == <<"B">>

T_C == <<"C">>

T_D == <<"D">>

T_E == <<"E">>

T_F == <<"F">>

T_G == <<"G">>

T_90 == <<"9", "0">>

T_95 == <<"9", "5">>

T_Jan_1_2018 == <<"J", "a", "n", " ", "1", ",", " ", "2", "0", "1", "8">>

T_Jan_1_2019 == <<"J", "a", "n", " ", "1", ",", " ", "2", "0", "1", "9">>

T_Jan_1_2020 == <<"J", "a", "n", " ", "1", ",", " ", "2", "0", "2", "0">>

T_Iso_2019 == <<"2", "0", "1", "9", "-", "0", "1", "-", "0", "1">>

ScoredRow(name, score, date) ==
    [PlainRow EXCEPT !.name = name, !.metacritic_score = score, !.release_date = date]

RowsQ1 ==
    { ScoredRow(T_A, T_90, T_Jan_1_2020),
      ScoredRow(T_B, T_95, T_Jan_1_2019),
      ScoredRow(T_C, T_90, T_Jan_1_2018),
      ScoredRow(T_D, T_Empty, T_Jan_1_2019),
      ScoredRow(T_E, T_95, T_Iso_2019),
      ScoredRow(T_G, T_90, T_Jan_1_2020) }

FillerQ1 == ScoredRow(T_F, T_90, T_Jan_1_2019)

\* short tables, and the same tables after TopN - 1 fillers: more rows than Q1 returns
TablesQ1 ==
    {[i \in 1..k |-> FillerQ1] \o tb : k \in {0, TopN - 1}, tb \in Tables(RowsQ1, MaxRowsQ1)}

InitQ1 == InitWith(TablesQ1)

SpecQ1 == InitQ1 /\ [][Next]_vars


T_N1 == <<"N", "1">>

T_N2 == <<"N", "2">>

T_N3 == <<"N", "3">>

T_N4 == <<"N", "4">>

T_N5 == <<"N", "5">>

T_N6 == <<"N", "6">>

T_N7 == <<"N", "7">>

T_N8 == <<"N", "8">>

T_jan_01_2020 == <<"j", "a", "n", " ", "0", "1", ",", " ", "2", "0", "2", "0">>

T_Feb_30_2020 == <<"F", "e", "b", " ", "3", "0", ",", " ", "2", "0", "2", "0">>

T_January_1_2020 == <<"J", "a", "n", "u", "a", "r", "y", " ", "1", ",", " ", "2", "0", "2", "0">>

T_Jan_1_2020_NoComma == <<"J", "a", "n", " ", "1", " ", "2", "0", "2", "0">>

T_Dec_31_20 == <<"D", "e", "c", " ", "3", "1", ",", " ", "2", "0">>

T_Iso_2020 == <<"2", "0", "2", "0", "-", "0", "1", "-", "0", "1">>

T_90_5 == <<"9", "0", ".", "5">>

T_abc == <<"a", "b", "c">>

T_N_A == <<"N", "/", "A">>

T_Minus5 == <<"-", "5">>

T_9x == <<"9", "x">>

T_100 == <<"1", "0", "0">>

T_Action_RPG == <<"A", "c", "t", "i", "o", "n", " ", "R", "P", "G">>

T_MMORPG == <<"M", "M", "O", "R", "P", "G">>

T_Indie_RolePlaying == <<"I", "n", "d", "i", "e", ";", "R", "o", "l", "e", "-", "P", "l", "a", "y", "i", "n", "g">>

T_RP_G == <<"R", "P", ",", "G">>

T_rpg == <<"r", "p", "g">>

T_Blank == <<" ">>

T_Action_Indie == <<"A", "c", "t", "i", "o", "n", ";", "I", "n", "d", "i", "e">>

T_Indie_RPG == <<"I", "n", "d", "i", "e", ",", " ", "R", "P", "G">>

T_Sim_VR_Group == <<"S", "i", "m", " ", "(", "V", "R", ")">>

T_Sim_VR == <<"S", "i", "m", " ", "V", "R">>

T_Sim_VR_Open == <<"S", "i", "m", " ", "(", "V", "R">>

T_9_99 == <<"9", ".", "9", "9">>

T_19_99 == <<"1", "9", ".", "9", "9">>

T_1 == <<"1">>

T_2 == <<"2">>

T_3 == <<"3">>

T_4 == <<"4">>

T_5 == <<"5">>

T_7 == <<"7">>

T_9 == <<"9">>

T_10 == <<"1", "0">>

T_99 == <<"9", "9">>

T_Owners_500000_1000000 ==
    <<"5", "0", "0", ",", "0", "0", "0", " ", "-", " ", "1", ",", "0", "0", "0", ",", "0", "0", "0">>

T_20000 == <<"2", "0", "0", "0", "0">>

T_20_000 == <<"2", "0", ",", "0", "0", "0">>

T_Owners_abc_5 == <<"a", "b", "c", " ", "-", " ", "5">>

T_Owners_Minus5_10 == <<"-", "5", " ", "-", " ", "1", "0">>

\* rows for the normalizer: dates in and out of the format '%b %d, %Y'; scores,
\* prices and owner ranges that parse, that do not parse and that are missing;
\* a row without genres, categories, tags, publishers and developers
MaxRows == 3

NormRow(name, score, date, price, owners) ==
    [ScoredRow(name, score, date) EXCEPT !.price = price, !.estimated_owners = owners]

RowsNorm ==
    { NormRow(T_N1, T_90, T_Jan_1_2020, T_9_99, T_Owners_500000_1000000),
      NormRow(T_N2, T_90_5, T_jan_01_2020, T_Zero, T_20000),
      [NormRow(T_N3, T_Empty, T_Empty, T_Empty, T_Empty)
          EXCEPT !.genres = T_Empty, !.categories = T_Empty, !.tags = T_Empty,
                 !.publishers = T_Empty, !.developers = T_Empty],
      NormRow(T_N4, T_abc, T_Iso_2020, T_abc, T_Owners_abc_5),
      NormRow(T_N5, T_N_A, T_Feb_30_2020, T_Minus5, T_Owners_Minus5_10),
      NormRow(T_N6, T_Minus5, T_January_1_2020, T_19_99, T_Owners_0_20000),
      NormRow(T_N7, T_9x, T_Jan_1_2020_NoComma, T_Zero, T_20_000),
      NormRow(T_N8, T_100, T_Dec_31_20, T_9_99, T_20000) }

Init == InitWith(Tables(RowsNorm, MaxRows))

Spec == Init /\ [][Next]_vars

\* rows for Q2: genres that hold a keyword inside a longer word or in another
\* case, genres that hold none, and a missing genres field
MaxRowsQ2 == 3

GenreRow(name, genres, dlc, pos, neg, shots, movies) ==
    [PlainRow EXCEPT !.name = name, !.genres = genres, !.dlc_count = dlc,
                     !.positive_reviews = pos, !.negative_reviews = neg,
                     !.screenshots = shots, !.movies = movies]

RowsQ2 ==
    { GenreRow(T_N1, T_Action_RPG, T_2, T_10, T_1, T_3, T_1),
      GenreRow(T_N2, T_MMORPG, T_Zero, T_5, T_5, T_1, T_Zero),
      GenreRow(T_N3, T_Indie_RolePlaying, T_7, T_1, T_Zero, T_Zero, T_2),
      GenreRow(T_N4, T_Action, T_9, T_99, T_9, T_9, T_9),
      GenreRow(T_N5, T_RP_G, T_4, T_3, T_2, T_2, T_2),
      GenreRow(T_N6, T_Empty, T_1, T_2, T_3, T_4, T_5),
      GenreRow(T_N7, T_rpg, T_3, T_7, T_4, T_5, T_3) }

InitQ2 == InitWith(Tables(RowsQ2, MaxRowsQ2))

SpecQ2 == InitQ2 /\ [][Next]_vars

\* rows for Q5: recent games with a blank genres field, with one and with several
\* genres, with a genre written with parentheses, and a game released before 2020
MaxRowsQ5 == 3

PricedRow(name, genres, date, price, pos, neg) ==
    [PlainRow EXCEPT !.name = name, !.genres = genres, !.release_date = date,
                     !.price = price, !.positive_reviews = pos, !.negative_reviews = neg]

RowsQ5 ==
    { PricedRow(T_N1, T_Blank, T_Jun_9_2020, T_Zero, T_1, T_1),
      PricedRow(T_N2, T_Action, T_Jun_9_2020, T_9_99, T_10, T_2),
      PricedRow(T_N3, T_Action_Indie, T_Dec_31_2022, T_Zero, T_5, T_5),
      PricedRow(T_N4, T_Indie_RPG, T_Jun_9_2020, T_19_99, T_1, T_Zero),
      PricedRow(T_N5, T_Action, T_Mar_5_2018, T_9_99, T_7, T_3),
      PricedRow(T_N6, T_Sim_VR_Group, T_Jun_9_2020, T_9_99, T_9, T_1),
      PricedRow(T_N7, T_Sim_VR, T_Jun_9_2020, T_Zero, T_2, T_Zero),
      PricedRow(T_N8, T_Sim_VR_Open, T_Dec_31_2022, T_Zero, T_1, T_Zero) }

InitQ5 == InitWith(Tables(RowsQ5, MaxRowsQ5))

SpecQ5 == InitQ5 /\ [][Next]_vars

\* header lines: the canonical labels, the labels in another case and with
\* blanks, and the aliases of the synonym table
MaxRowsHeaders == 2

T_Positive == <<"P", "o", "s", "i", "t", "i", "v", "e">>

T_Negative == <<"N", "e", "g", "a", "t", "i", "v", "e">>

T_Publishers_Padded == <<" ", "P", "u", "b", "l", "i", "s", "h", "e", "r", "s", " ">>

T_Publisher_Name == <<"P", "u", "b", "l", "i", "s", "h", "e", "r", " ", "N", "a", "m", "e">>

T_Game_Publisher == <<"G", "a", "m", "e", " ", "P", "u", "b", "l", "i", "s", "h", "e", "r">>

T_Developer_Name == <<"D", "e", "v", "e", "l", "o", "p", "e", "r", " ", "N", "a", "m", "e">>

T_Game_Developer == <<"G", "a", "m", "e", " ", "D", "e", "v", "e", "l", "o", "p", "e", "r">>

Headers ==
    [positive_reviews : {L_positive_reviews, T_Positive},
     negative_reviews : {L_negative_reviews, T_Negative},
     publishers       : {L_publishers, T_Publishers_Padded, T_Publisher_Name,
                         T_Game_Publisher},
     developers       : {L_developers, T_Developer_Name, T_Game_Developer}]

RowsHeaders ==
    { ScoredRow(T_N1, T_90, T_Jan_1_2020),
      PricedRow(T_N2, T_Action, T_Jun_9_2020, T_9_99, T_10, T_2) }

InitHeaders == InitWithHeader(Tables(RowsHeaders, MaxRowsHeaders), Headers)

SpecHeaders == InitHeaders /\ [][Next]_vars

\* rows for the platform flags: True and False, a missing token, a token that
\* is neither, and 1 and 0
MaxRowsPlatforms == 3

T_yes == <<"y", "e", "s">>

PlatformRow(name, date, windows, mac, linux) ==
    [PlainRow EXCEPT !.name = name, !.release_date = date, !.windows = windows,
                     !.mac = mac, !.linux = linux]

RowsPlatforms ==
    { PlatformRow(T_N1, T_Jun_9_2020, T_True, T_True, T_True),
      PlatformRow(T_N2, T_Jun_9_2020, T_True, T_False, T_Empty),
      PlatformRow(T_N3, T_Mar_5_2018, T_Empty, T_Empty, T_False),
      PlatformRow(T_N4, T_Jun_9_2020, T_True, T_True, T_yes),
      PlatformRow(T_N5, T_Dec_31_2022, T_1, T_Zero, T_Zero),
      PlatformRow(T_N6, T_Jun_9_2020, T_True, T_False, T_False) }

InitPlatforms == InitWith(Tables(RowsPlatforms, MaxRowsPlatforms))

SpecPlatforms == InitPlatforms /\ [][Next]_vars

\* rows for the counters: digits alone, a missing value, digits with a comma,
\* with a letter and with a point, and a text without digits
MaxRowsCounters == 3

CounterRow(name, dlc, pos) ==
    [PlainRow EXCEPT !.name = name, !.release_date = T_Jun_9_2020,
                     !.dlc_count = dlc, !.positive_reviews = pos]

RowsCounters ==
    { CounterRow(T_N1, T_5, T_10),
      CounterRow(T_N2, T_Empty, T_20_000),
      CounterRow(T_N3, T_7, T_abc),
      CounterRow(T_N4, T_9x, T_Empty),
      CounterRow(T_N5, T_10, T_9_99) }

InitCounters == InitWith(Tables(RowsCounters, MaxRowsCounters))

SpecCounters == InitCounters /\ [][Next]_vars

\* rows for the correlation of Q5: recent games that share a genre and differ
\* in price only, in reviews only and in both, and a game released before 2020
MaxRowsQ5Corr == 3

T_Action_Then_RPG == <<"A", "c", "t", "i", "o", "n", ";", "R", "P", "G">>

RowsQ5Corr ==
    { PricedRow(T_N1, T_Action, T_Jun_9_2020, T_9_99, T_10, T_2),
      PricedRow(T_N2, T_Action_Indie, T_Dec_31_2022, T_Zero, T_5, T_5),
      PricedRow(T_N3, T_Action_Then_RPG, T_Jun_9_2020, T_Zero, T_1, T_Zero),
      PricedRow(T_N4, T_Indie_RPG, T_Jun_9_2020, T_19_99, T_1, T_Zero),
      PricedRow(T_N5, T_Action, T_Mar_5_2018, T_19_99, T_7, T_3) }

InitQ5Corr == InitWith(Tables(RowsQ5Corr, MaxRowsQ5Corr))

SpecQ5Corr == InitQ5Corr /\ [][Next]_vars

\* rows for Q3: paid games of two co-publishers of the base table, of a further
\* publisher and of no publisher, a free game, and a game with a negative price
MaxRowsQ3 == 3

T_P1 == <<"P", "1">>

T_P2 == <<"P", "2">>

T_P3 == <<"P", "3">>

T_P4 == <<"P", "4">>

T_P5 == <<"P", "5">>

T_P7 == <<"P", "7">>

T_P1_P2 == <<"P", "1", ",", " ", "P", "2">>

PaidRow(name, publisher, price, pos) ==
    [PlainRow EXCEPT !.name = name, !.publishers = publisher, !.price = price,
                     !.positive_reviews = pos]

RowsQ3 ==
    { PaidRow(T_N1, T_P1_P2, T_9_99, T_10),
      PaidRow(T_N2, T_P5, T_19_99, T_5),
      PaidRow(T_N3, T_P7, T_Zero, T_99),
      PaidRow(T_N4, T_Empty, T_9_99, T_7),
      PaidRow(T_N5, T_P5, T_Minus5, T_3) }

\* a base table of paid games: three of P1, two of P2, one of P3, one of P4
BaseQ3 ==
    << PaidRow(T_A, T_P1, T_9_99, T_1), PaidRow(T_B, T_P1, T_9_99, T_2),
       PaidRow(T_C, T_P1, T_9_99, T_9), PaidRow(T_D, T_P2, T_19_99, T_4),
       PaidRow(T_E, T_P2, T_19_99, T_5), PaidRow(T_F, T_P3, T_9_99, T_7),
       PaidRow(T_G, T_P4, T_9_99, T_3) >>

\* short tables, and the same tables after the base table: more than
\* TopPublishers publishers with paid games
TablesQ3 ==
    {base \o tb : base \in {<<>>, BaseQ3}, tb \in Tables(RowsQ3, MaxRowsQ3)}

InitQ3 == InitWith(TablesQ3)

SpecQ3 == InitQ3 /\ [][Next]_vars

(***************************************************************************)
(* Q4 properties                                                           *)
(***************************************************************************)
\* the records Q4 is about: linux = true and release_year in [2018, 2022]
LinuxMatches(y) ==
    {i \in 1..Len(df) : /\ df[i].linux
                        /\ ~df[i].release_date.nat
                        /\ df[i].release_date.y = y}

Q4Years == <<2018, 2019, 2020, 2021, 2022>>

Q4Matched == UNION {LinuxMatches(Q4Years[k]) : k \in 1..5}

Q4Rows == result.value.rows

\* C1: Q4 returns, for every canonical table, exactly five rows, one for each
\* year 2018..2022, a table without any match included
C1_Q4AlwaysFiveRows ==
    last = "Q4" =>
        /\ ~result.raised
        /\ Len(Q4Rows) = 5
        /\ \A k \in 1..5 : Q4Rows[k].release_year = Q4Years[k]

\* C5: the num_linux_games of the Q4 result sum to the number of records with
\* linux = true and release_year in [2018, 2022]
C5_Q4CountsSum ==
    last = "Q4" =>
        /\ ~result.raised
        /\ SumOf([k \in 1..Len(Q4Rows) |-> Q4Rows[k].num_linux_games])
              = Cardinality(Q4Matched)

C5_Witness ==
    /\ last = "Q4"
    /\ Cardinality(Q4Matched) = 2
    /\ Len(df) = 3
    /\ \E k \in 1..Len(Q4Rows) : Q4Rows[k].num_linux_games = 2

\* C6: with at least one match, the Q4 rows are the years 2018..2022 ascending
\* and each row counts the records with linux = true released in its year
C6_Q4PerYearCounts ==
    (last = "Q4" /\ Q4Matched # {}) =>
        /\ ~result.raised
        /\ Len(Q4Rows) = 5
        /\ \A k \in 1..5 :
              /\ Q4Rows[k].release_year = Q4Years[k]
              /\ Q4Rows[k].num_linux_games = Cardinality(LinuxMatches(Q4Years[k]))

\* two matches in 2018 and one in 2020 give (2018,2) (2019,0) (2020,1) (2021,0) (2022,0)
C6_Witness ==
    /\ last = "Q4"
    /\ Cardinality(LinuxMatches(2018)) = 2
    /\ Cardinality(LinuxMatches(2020)) = 1
    /\ Q4Rows = <<[release_year |-> 2018, num_linux_games |-> 2],
                  [release_year |-> 2019, num_linux_games |-> 0],
                  [release_year |-> 2020, num_linux_games |-> 1],
                  [release_year |-> 2021, num_linux_games |-> 0],
                  [release_year |-> 2022, num_linux_games |-> 0]>>

(***************************************************************************)
(* Q1 properties                                                           *)
(***************************************************************************)
Q1Rows == result.value.rows

Q1Names == [k \in 1..Len(Q1Rows) |-> Q1Rows[k].name.s]

\* the table of the scenario: A(90, 2020-01-01), B(95, 2019-01-01), C(90, 2018-01-01)
IsScenarioQ1 ==
    /\ Len(df) = 3
    /\ {<<df[i].name.s, df[i].metacritic_score, df[i].release_date>> : i \in 1..3}
         = { <<T_A, Float(9000), Date(2020, 1, 1)>>,
             <<T_B, Float(9500), Date(2019, 1, 1)>>,
             <<T_C, Float(9000), Date(2018, 1, 1)>> }

\* C2 as stated: on the scenario's table Q1 returns the records in the order [B, A, C]
C2_ScenarioOrderBAC ==
    (last = "Q1" /\ IsScenarioQ1) => (~result.raised /\ Q1Names = <<T_B, T_A, T_C>>)

\* C2 amended: on the scenario's table Q1 returns [B, C, A]: B has the highest
\* score, and of A and C, equal in score, C is the older
C2_ScenarioOrderBCA ==
    (last = "Q1" /\ IsScenarioQ1) => (~result.raised /\ Q1Names = <<T_B, T_C, T_A>>)

C2_Witness ==
    /\ last = "Q1"
    /\ IsScenarioQ1
    /\ df[1].name.s = T_A /\ df[2].name.s = T_B /\ df[3].name.s = T_C
    /\ Len(Q1Rows) = 3

\* C3: the Q1 result has at most 10 rows, its scores are non-increasing, and
\* consecutive rows of equal score have non-decreasing release dates
C3_Q1SortedTop10 ==
    last = "Q1" =>
        /\ ~result.raised
        /\ Len(Q1Rows) <= 10
        /\ \A k \in 1..(Len(Q1Rows) - 1) :
              /\ Q1Rows[k].metacritic_score >= Q1Rows[k + 1].metacritic_score
              /\ Q1Rows[k].metacritic_score = Q1Rows[k + 1].metacritic_score
                    => DateOrd(Q1Rows[k].release_date) <= DateOrd(Q1Rows[k + 1].release_date)

\* more than 10 records qualify, 10 are returned, with a tie on the score in them
C3_Witness ==
    /\ last = "Q1"
    /\ Cardinality({i \in 1..Len(df) : HasScore(df[i]) /\ HasDate(df[i])}) > 10
    /\ Len(Q1Rows) = 10
    /\ Q1Rows[1].metacritic_score > Q1Rows[2].metacritic_score
    /\ \E k \in 1..9 :
          /\ Q1Rows[k].metacritic_score = Q1Rows[k + 1].metacritic_score
          /\ DateOrd(Q1Rows[k].release_date) < DateOrd(Q1Rows[k + 1].release_date)

\* the records with both metacritic_score and release_date present
Qualifying == {i \in 1..Len(df) : ~df[i].metacritic_score.nan /\ ~df[i].release_date.nat}

\* record i comes before record j in the stable order: higher score, or equal
\* score and older date, or equal score and date and earlier in the table
ComesBefore(i, j) ==
    \/ df[i].metacritic_score.v > df[j].metacritic_score.v
    \/ /\ df[i].metacritic_score.v = df[j].metacritic_score.v
       /\ \/ DateOrd(df[i].release_date) < DateOrd(df[j].release_date)
          \/ DateOrd(df[i].release_date) = DateOrd(df[j].release_date) /\ i < j

\* the place of qualifying record i in the stable order
PlaceOf(i) == 1 + Cardinality({j \in Qualifying : ComesBefore(j, i)})

\* C20: the Q1 result is the first min(10, n) of the n qualifying records in the
\* stable order by score descending, then date ascending: no record with an
\* absent score or date appears, equal (score, date) keep their table order,
\* and all n are returned when n < 10
C20_Q1StablePrefix ==
    last = "Q1" =>
        /\ ~result.raised
        /\ Len(Q1Rows) = IF Cardinality(Qualifying) < 10 THEN Cardinality(Qualifying) ELSE 10
        /\ \A i \in Qualifying :
              PlaceOf(i) <= Len(Q1Rows) =>
                  Q1Rows[PlaceOf(i)] = [name             |-> df[i].name,
                                        metacritic_score |-> df[i].metacritic_score.v,
                                        release_date     |-> df[i].release_date,
                                        publishers       |-> df[i].publishers,
                                        developers       |-> df[i].developers]

\* G before A in the table, both with score 90 and date 2020-01-01, and a record
\* without a score: the result is [G, A]
C20_Witness ==
    /\ last = "Q1"
    /\ Len(df) = 3
    /\ df[1].name.s = T_G /\ df[2].name.s = T_D /\ df[3].name.s = T_A
    /\ Q1Names = <<T_G, T_A>>

(***************************************************************************)
(* Q2 properties                                                           *)
(***************************************************************************)
\* word occurs in text, case ignored
HasSubstringCI(text, word) ==
    \E i \in 1..Len(text), j \in 1..Len(text) :
        LowerText(SubSeq(text, i, j)) = LowerText(word)

\* the records whose genres hold 'RPG' or 'Role-playing' as a substring, case ignored
RolePlayingRecords ==
    SelectSeq(df, LAMBDA r : \/ HasSubstringCI(r.genres, <<"R", "P", "G">>)
                             \/ HasSubstringCI(r.genres, RpgPattern[2]))

\* mean and maximum of the four metrics over the records s
MetricsOver(s) ==
    [dlc_count            |-> MetricOf([i \in 1..Len(s) |-> s[i].dlc_count]),
     positive_reviews     |-> MetricOf([i \in 1..Len(s) |-> s[i].positive_reviews]),
     negative_reviews     |-> MetricOf([i \in 1..Len(s) |-> s[i].negative_reviews]),
     total_demo_materials |-> MetricOf([i \in 1..Len(s) |-> s[i].screenshots + s[i].movies])]

\* C9: Q2 works on exactly the records whose genres hold 'RPG' or 'Role-playing'
\* as a case-insensitive substring: every mean and maximum it reports is the one
\* of those records, and it reports none when there is no such record
C9_Q2SubstringSelection ==
    last = "Q2" =>
        LET selection == RolePlayingRecords
        IN  /\ ~result.raised
            /\ selection = <<>> => "dlc_count" \notin DOMAIN result.value
            /\ selection # <<>> =>
                  /\ "dlc_count" \in DOMAIN result.value
                  /\ \A m \in {"dlc_count", "positive_reviews", "negative_reviews",
                                "total_demo_materials"} :
                        result.value[m] = MetricsOver(selection)[m]

\* 'Action RPG' and 'MMORPG' are selected, 'Action' is not: the mean is over 2 records
C9_Witness ==
    /\ last = "Q2"
    /\ {df[i].genres : i \in 1..Len(df)} = {T_Action_RPG, T_MMORPG, T_Action}
    /\ result.value.dlc_count.media = [num |-> 2, den |-> 2]
    /\ result.value.dlc_count.maximo = 2

Q2Metrics == {"dlc_count", "positive_reviews", "negative_reviews", "total_demo_materials"}

\* C10: without a role-playing record Q2 returns a mapping holding only a message;
\* with one it returns mean and maximum for exactly the four metrics
C10_Q2MessageOrMetrics ==
    last = "Q2" =>
        LET selection == RolePlayingRecords
        IN  /\ ~result.raised
            /\ selection = <<>> => DOMAIN result.value = {"message"}
            /\ selection # <<>> =>
                  /\ DOMAIN result.value = Q2Metrics
                  /\ \A m \in Q2Metrics :
                        /\ DOMAIN result.value[m] = {"media", "maximo"}
                        /\ result.value[m].media.den = Len(selection)

\* a table with records, none of them a role-playing game
C10_Witness ==
    /\ last = "Q2"
    /\ Len(df) = 2
    /\ RolePlayingRecords = <<>>
    /\ result.value = [message |-> NoRpgMessage]

\* the value of metric m on the record r
MetricValue(r, m) ==
    IF m = "total_demo_materials" THEN r.screenshots + r.movies ELSE r[m]

\* C11: with a non-empty role-playing selection, each of the four Q2 metrics has
\* 0 <= mean <= max: the mean is sum / size with 0 <= sum <= size * max, where
\* the sum is that of the metric over the selection
C11_Q2MeanWithinMax ==
    last = "Q2" =>
        LET selection == RolePlayingRecords
        IN  selection # <<>> =>
                /\ ~result.raised
                /\ \A m \in Q2Metrics :
                      LET total == SumOf([i \in 1..Len(selection) |->
                                            MetricValue(selection[i], m)])
                      IN  /\ result.value[m].media = [num |-> total, den |-> Len(selection)]
                          /\ 0 <= total
                          /\ total <= Len(selection) * result.value[m].maximo

\* three role-playing records with different values: every mean is strictly
\* between 0 and the maximum, and the largest demo total adds both inputs
C11_Witness ==
    /\ last = "Q2"
    /\ Len(RolePlayingRecords) = 3
    /\ \A m \in Q2Metrics :
          /\ 0 < result.value[m].media.num
          /\ result.value[m].media.num < 3 * result.value[m].maximo
    /\ result.value.total_demo_materials.maximo = 8
    /\ \E i \in 1..3 : df[i].screenshots = 5 /\ df[i].movies = 3

(***************************************************************************)
(* Q3 properties                                                           *)
(***************************************************************************)
Q3Rows == result.value.rows

\* the publishers strings of the records with price > 0
PaidPublishers ==
    {AsTypeStr(df[i].publishers) : i \in {j \in 1..Len(df) : df[j].price.v > 0}}

\* C12: the Q3 result has at most 5 rows and num_paid_games never increases
\* from a row to the next
C12_Q3TopFiveOrdered ==
    last = "Q3" =>
        /\ ~result.raised
        /\ Len(Q3Rows) <= 5
        /\ \A k \in 1..(Len(Q3Rows) - 1) :
              Q3Rows[k].num_paid_games >= Q3Rows[k + 1].num_paid_games

\* more than 5 publishers have paid games, 5 rows are returned and the counts
\* fall from the first row to the last
C12_Witness ==
    /\ last = "Q3"
    /\ Cardinality(PaidPublishers) > 5
    /\ Len(Q3Rows) = 5
    /\ Q3Rows[1].num_paid_games = 3
    /\ Q3Rows[2].num_paid_games = 2
    /\ Q3Rows[5].num_paid_games = 1

\* C13: when no record has price > 0, Q3 returns without an error a result of
\* zero rows with the columns publishers, num_paid_games, avg_positive_reviews,
\* median_positive_reviews
C13_Q3EmptyWhenNoPaid ==
    (last = "Q3" /\ \A i \in 1..Len(df) : ~(df[i].price.v > 0)) =>
        /\ ~result.raised
        /\ Q3Rows = <<>>
        /\ result.value.columns = <<"publishers", "num_paid_games",
                                    "avg_positive_reviews", "median_positive_reviews">>

\* a table of three games, free or of a negative price
C13_Witness ==
    /\ last = "Q3"
    /\ Len(df) = 3
    /\ {df[i].price : i \in 1..3} = {Float(0), Float(-500)}
    /\ Q3Rows = <<>>

\* the records of the table with price > 0
PaidRecords == {i \in 1..Len(df) : IsPaid(df[i])}

\* the publishers texts of the paid records; a record without publishers has
\* no text
PaidPublisherTexts ==
    {df[i].publishers.s : i \in {j \in PaidRecords : df[j].publishers.k = "str"}}

\* the number of paid records whose publishers field is exactly the text p
PaidGamesOf(p) ==
    Cardinality({i \in PaidRecords : df[i].publishers = StrCell(p)})

\* C21: each row of the Q3 result names a verbatim publishers text of the
\* table (a co-publisher text is one group), its num_paid_games is the number
\* of records with price > 0 and exactly that text, there are
\* min(5, distinct publishers texts among paid games) rows, and no absent
\* publisher has strictly more paid games than a publisher of the result
C21_Q3GroupsVerbatimPublishers ==
    (last = "Q3" /\ ~result.raised) =>
        LET rows == Q3Rows
            texts == PaidPublisherTexts
            named == {rows[k].publishers : k \in 1..Len(rows)}
        IN  /\ \A k \in 1..Len(rows) :
                  /\ rows[k].publishers \in texts
                  /\ rows[k].num_paid_games = PaidGamesOf(rows[k].publishers)
            /\ Cardinality(named) = Len(rows)
            /\ Len(rows) = IF Cardinality(texts) < TopPublishers
                              THEN Cardinality(texts) ELSE TopPublishers
            /\ \A p \in texts \ named : \A k \in 1..Len(rows) :
                  PaidGamesOf(p) <= rows[k].num_paid_games

\* the same statement on the tables in which every paid game has a publishers
\* text
C21_Q3GroupsWhenAllNamed ==
    (\A i \in PaidRecords : df[i].publishers.k = "str")
        => C21_Q3GroupsVerbatimPublishers

\* a co-publisher text reported as one group of its own
C21_CoPublisherGroup ==
    /\ last = "Q3"
    /\ ~result.raised
    /\ \A i \in PaidRecords : df[i].publishers.k = "str"
    /\ \E k \in 1..Len(Q3Rows) : Q3Rows[k].publishers = T_P1_P2
    /\ Len(df) > 7

\* a paid game without publishers reported under the text 'nan'
C21_NanGroup ==
    /\ last = "Q3"
    /\ ~result.raised
    /\ \E k \in 1..Len(Q3Rows) : Q3Rows[k].publishers = <<"n", "a", "n">>


(***************************************************************************)
(* Q5 properties                                                           *)
(***************************************************************************)
Q5Rows == result.value.rows

Q5Reported == {Q5Rows[k].genre : k \in 1..Len(Q5Rows)}

\* the records with release_year > 2019
PostRecords == SelectSeq(df, LAMBDA r : ~r.release_year.nan /\ r.release_year.v > 201900)

\* the trimmed pieces of a genres string split on ';' or ','
TrimmedTokens(g) == [i \in 1..Len(SplitGenres(g)) |-> StripText(SplitGenres(g)[i])]

\* the number of times tok is a token of a post-2019 record
TokenFrequency(tok) ==
    SumOf([i \in 1..Len(PostRecords) |->
              Cardinality({k \in 1..Len(TrimmedTokens(PostRecords[i].genres)) :
                              TrimmedTokens(PostRecords[i].genres)[k] = tok})])

\* the distinct non-empty tokens of the post-2019 records
PostTokens ==
    UNION {{TrimmedTokens(PostRecords[i].genres)[k] :
                k \in 1..Len(TrimmedTokens(PostRecords[i].genres))} :
               i \in 1..Len(PostRecords)} \ {<<>>}

\* C14: the genres Q5 reports are exactly the (up to) 5 most frequent distinct
\* non-empty tokens of the genres strings of the post-2019 records: each reported
\* genre is such a token, min(5, number of tokens) are reported, and no token
\* left out occurs strictly more often than a reported one
C14_Q5MostFrequentGenres ==
    (last = "Q5" /\ ~result.raised) =>
        /\ Q5Reported \subseteq PostTokens
        /\ Len(Q5Rows) = Cardinality(Q5Reported)
        /\ Cardinality(Q5Reported) =
              IF Cardinality(PostTokens) < 5 THEN Cardinality(PostTokens) ELSE 5
        /\ \A t \in PostTokens \ Q5Reported, g \in Q5Reported :
              TokenFrequency(t) <= TokenFrequency(g)

\* the post-2019 records whose unsplit genres string holds tok as a substring,
\* case ignored
SubstringRecords(tok) == SelectSeq(PostRecords, LAMBDA r : HasSubstringCI(r.genres, tok))

\* C15: the Q5 rows are in non-increasing order of avg_total_recommendations, and
\* the avg_total_recommendations of a row is the mean of positive_reviews +
\* negative_reviews over the post-2019 records whose unsplit genres string holds
\* the row's genre as a case-insensitive substring
C15_Q5OrderedBySubstringMean ==
    (last = "Q5" /\ ~result.raised) =>
        /\ \A k \in 1..Len(Q5Rows) :
              LET recs == SubstringRecords(Q5Rows[k].genre)
              IN  Q5Rows[k].avg_total_recommendations =
                      [num |-> SumOf([i \in 1..Len(recs) |->
                                         recs[i].positive_reviews + recs[i].negative_reviews]),
                       den |-> Len(recs)]
        /\ \A k \in 1..(Len(Q5Rows) - 1) :
              Q5Rows[k].avg_total_recommendations.num
                    * Q5Rows[k + 1].avg_total_recommendations.den
                 >= Q5Rows[k + 1].avg_total_recommendations.num
                       * Q5Rows[k].avg_total_recommendations.den

\* the post-2019 records a row of the Q5 result is computed from: those whose
\* genres text the row's genre, taken as a pattern, is found in
GenreSubset(genre) ==
    SelectSeq(PostRecords, LAMBDA r : StrContains(r.genres, <<RegexOfToken(genre)>>))

\* C22: in every row of the Q5 result correlation_price_recs is absent exactly
\* when price or total_recommendations has at most one distinct value within
\* the genre's subset; a value, 0 included, is reported only when computed
C22_Q5CorrelationAbsentIffConstant ==
    (last = "Q5" /\ ~result.raised) =>
        LET rows == Q5Rows
        IN  \A k \in 1..Len(rows) :
              LET games  == GenreSubset(rows[k].genre)
                  prices == {games[i].price : i \in 1..Len(games)}
                  recs   == {games[i].positive_reviews + games[i].negative_reviews :
                                i \in 1..Len(games)}
              IN  rows[k].correlation_price_recs.nan
                      <=> (Cardinality(prices) <= 1 \/ Cardinality(recs) <= 1)

\* a result with a computed correlation, an absent one of a subset that
\* differs in total_recommendations only, and an absent one of a subset that
\* differs in price only
C22_Witness ==
    /\ last = "Q5"
    /\ ~result.raised
    /\ \E k \in 1..Len(Q5Rows) : ~Q5Rows[k].correlation_price_recs.nan
    /\ \E k \in 1..Len(Q5Rows) :
          LET games == GenreSubset(Q5Rows[k].genre)
          IN  /\ Q5Rows[k].correlation_price_recs.nan
              /\ Cardinality({games[i].positive_reviews + games[i].negative_reviews :
                                 i \in 1..Len(games)}) >= 2
    /\ \E k \in 1..Len(Q5Rows) :
          LET games == GenreSubset(Q5Rows[k].genre)
          IN  /\ Q5Rows[k].correlation_price_recs.nan
              /\ Cardinality({games[i].price : i \in 1..Len(games)}) >= 2

(***************************************************************************)
(* The queries and the table                                               *)
(***************************************************************************)
\* the table as the normalizer built it
LoadedTable == load_and_preprocess_data(raw)

C4_QueriesNeverRaise == last \in {"Q1", "Q2", "Q3", "Q4", "Q5"} => ~result.raised

(***************************************************************************)
(* Normalizer properties                                                   *)
(***************************************************************************)
\* C7: the canonical table has one record per raw row, in the order of the rows
C7_LoadKeepsRows ==
    pc = "loaded" =>
        /\ Len(df) = Len(raw)
        /\ \A i \in 1..Len(raw) : df[i].name = StrCell(raw[i].name)

\* three rows, the first two without a date or a score
C7_Witness ==
    /\ pc = "loaded"
    /\ Len(raw) = 3
    /\ raw[1].name = T_N4 /\ raw[2].name = T_N3 /\ raw[3].name = T_N1
    /\ df[1].release_date.nat /\ df[2].metacritic_score.nan /\ ~df[3].release_date.nat

\* a decimal numeral: digits, at most one point, a sign in front at most
IsNumeralText(s) ==
    /\ \E i \in 1..Len(s) : s[i] \in Digits
    /\ \A i \in 1..Len(s) : s[i] \in Digits \cup {".", "+", "-"}
    /\ \A i \in 2..Len(s) : s[i] \notin {"+", "-"}
    /\ Cardinality({i \in 1..Len(s) : s[i] = "."}) <= 1

AllSpaces(s) == s # <<>> /\ \A i \in 1..Len(s) : s[i] = " "

\* abbreviated month, day of one or two digits, a comma, a year of four digits
MatchesDateFormat(s) ==
    /\ Len(s) >= 11
    /\ \E k \in 1..12 : LowerText(SubSeq(s, 1, 3)) = MonthAbbr[k]
    /\ AllDigits(SubSeq(s, Len(s) - 3, Len(s)))
    /\ \E a \in 4..(Len(s) - 7) :
          /\ AllSpaces(SubSeq(s, 4, a))
          /\ \E b \in {a + 1, a + 2} :
                /\ b + 1 < Len(s) - 4
                /\ AllDigits(SubSeq(s, a + 1, b))
                /\ s[b + 1] = ","
                /\ AllSpaces(SubSeq(s, b + 2, Len(s) - 4))

YearDigits(s) == DigitsToNat(SubSeq(s, Len(s) - 3, Len(s)))

\* C8: a score that is missing or does not parse is absent, a date that is
\* missing or not in the format is absent, and release_year is absent exactly
\* when the date is, and is the year of the date otherwise
C8_AbsentNotSentinel ==
    pc = "loaded" =>
        \A i \in 1..Len(df) :
            /\ ~IsNumeralText(raw[i].metacritic_score) => df[i].metacritic_score = NaN
            /\ ~MatchesDateFormat(raw[i].release_date) => df[i].release_date = NaT
            /\ df[i].release_year.nan <=> df[i].release_date.nat
            /\ ~df[i].release_date.nat =>
                  /\ df[i].release_year = Float(100 * df[i].release_date.y)
                  /\ df[i].release_date.y = YearDigits(raw[i].release_date)

\* a score in letters beside a score that parses, a date out of the format
\* beside one in it
C8_Witness ==
    /\ pc = "loaded"
    /\ Len(df) = 3
    /\ raw[1].metacritic_score = T_abc /\ df[1].metacritic_score.nan
    /\ raw[1].release_date = T_Iso_2020 /\ df[1].release_year.nan
    /\ raw[2].metacritic_score = T_90_5 /\ df[2].metacritic_score = Float(9050)
    /\ df[2].release_year = Float(202000)
    /\ raw[3].metacritic_score = T_Empty /\ df[3].metacritic_score.nan

\* the cell read_csv gives for the estimated_owners of row i: a text, unless the
\* value is missing or every value of the column is a number
OwnersCell(i) == ReadCell(raw, "estimated_owners", i)

\* the text without its commas, up to its first ' - '
OwnersLowerText(s) ==
    LET t      == SelectSeq(s, LAMBDA c : c # ",")
        dash(k) == k + 3 <= Len(t) /\ t[k + 1] = " " /\ t[k + 2] = "-" /\ t[k + 3] = " "
        n      == CHOOSE k \in 0..Len(t) :
                     (k = Len(t) \/ dash(k)) /\ \A j \in 0..(k - 1) : ~dash(j)
    IN  SubSeq(t, 1, n)

\* C17: estimated_owners is the number written by the first segment of the raw
\* text, commas removed and the text split on ' - ' ('500,000 - 1,000,000' gives
\* 500000.0); it is 0 when the value is missing, is not a text, or its first
\* segment is not a number
C17_OwnersLowerBound ==
    pc = "loaded" =>
        \A i \in 1..Len(df) :
            LET seg  == OwnersLowerText(raw[i].estimated_owners)
                text == OwnersCell(i).k = "str"
            IN  /\ ~text => df[i].estimated_owners = Float(0)
                /\ (text /\ ~IsNumeralText(seg)) => df[i].estimated_owners = Float(0)
                /\ (text /\ IsNumeralText(seg))
                      => df[i].estimated_owners = Float(ParseNumber(seg).v)
                /\ raw[i].estimated_owners = T_Owners_500000_1000000
                      => df[i].estimated_owners = Float(50000000)

\* '500,000 - 1,000,000' gives 500000.0, 'abc - 5' and a missing value give 0
C17_Witness ==
    /\ pc = "loaded"
    /\ Len(df) = 3
    /\ raw[1].estimated_owners = T_Owners_500000_1000000
    /\ df[1].estimated_owners = Float(50000000)
    /\ raw[2].estimated_owners = T_Owners_abc_5 /\ df[2].estimated_owners = Float(0)
    /\ raw[3].estimated_owners = T_Empty /\ df[3].estimated_owners = Float(0)

\* C18: every record of the canonical table has price >= 0 and
\* estimated_owners >= 0, whatever the raw values are
C18_PriceAndOwnersNonNegative ==
    pc = "loaded" =>
        \A i \in 1..Len(df) :
            /\ ~df[i].price.nan /\ df[i].price.v >= 0
            /\ ~df[i].estimated_owners.nan /\ df[i].estimated_owners.v >= 0

T_Unknown == <<"U", "n", "k", "n", "o", "w", "n">>

\* the raw value of field f in row i is missing
RawMissing(i, f) == raw[i][f] \in NaStrings

\* C19: a record whose raw genres, categories or tags is missing has the empty
\* string there; a record whose raw publishers or developers is missing has the
\* empty string or 'Unknown' there; no string field holds an absent marker
C19_MissingTextDefaults ==
    pc = "loaded" =>
        \A i \in 1..Len(df) :
            /\ \A f \in {"genres", "categories", "tags"} :
                  RawMissing(i, f) => df[i][f] = <<>>
            /\ \A f \in {"publishers", "developers"} :
                  /\ df[i][f].k # "nan"
                  /\ RawMissing(i, f) => df[i][f] \in {StrCell(<<>>), StrCell(T_Unknown)}

\* the counter fields of a record
CounterFields ==
    {"dlc_count", "positive_reviews", "negative_reviews", "screenshots", "movies"}

\* the integer denoted by the digits of a text, 0 when it has none
DigitsValue(s) == DigitsToNat(SelectSeq(s, LAMBDA c : c \in Digits))

\* C23: each counter of the canonical table is the integer denoted by the
\* digits of its raw text, every other character removed, and 0 when no digit
\* remains; it is never negative, and a raw text of digits alone is returned
\* as the integer it denotes
C23_CountersAreDigitsOfRawText ==
    pc = "loaded" =>
        \A i \in 1..Len(raw) : \A f \in CounterFields :
            /\ df[i][f] \in Nat
            /\ df[i][f] = DigitsValue(raw[i][f])

\* the same statement for the counter columns that read_csv does not read as
\* float64
C23_CountersOutsideFloatColumns ==
    pc = "loaded" =>
        \A f \in {g \in CounterFields : ColumnDtype(raw, g) # "float64"} :
            \A i \in 1..Len(raw) :
                /\ df[i][f] \in Nat
                /\ df[i][f] = DigitsValue(raw[i][f])

\* a dlc_count of '5' beside a missing one, loaded as 50
C23_FloatColumn ==
    /\ pc = "loaded"
    /\ Len(raw) = 2
    /\ raw[1].dlc_count = T_5 /\ raw[2].dlc_count = T_Empty
    /\ df[1].dlc_count = 50

\* counters of digits with other characters, outside float64 columns
C23_MixedTexts ==
    /\ pc = "loaded"
    /\ Len(raw) = 3
    /\ raw[1].positive_reviews = T_20_000 /\ df[1].positive_reviews = 20000
    /\ raw[2].dlc_count = T_9x /\ df[2].dlc_count = 9
    /\ raw[3].positive_reviews = T_abc /\ df[3].positive_reviews = 0

\* the platform flags of a record
PlatformFields == {"windows", "mac", "linux"}

\* a raw token that is non-empty and truthy: neither missing, nor a false
\* text, nor 0
RawTruthy(tok) == tok \notin NaStrings \cup FalseTexts \cup {T_Zero}

\* the records Q4 is to count for a year: released in it, raw linux token truthy
RawLinuxOfYear(y) ==
    {i \in 1..Len(raw) : /\ RawTruthy(raw[i].linux)
                          /\ ~df[i].release_year.nan
                          /\ df[i].release_year.v = 100 * y}

\* C24: each of windows, mac and linux of the canonical table is a boolean, true
\* exactly when the raw token of the record is non-empty and truthy; a record
\* with a missing or empty raw linux token has linux = false and Q4 does not
\* count it
C24_PlatformFlagsFollowRawToken ==
    /\ pc = "loaded" =>
          \A i \in 1..Len(raw) : \A f \in PlatformFields :
              /\ df[i][f] \in BOOLEAN
              /\ df[i][f] <=> RawTruthy(raw[i][f])
    /\ (last = "Q4" /\ ~result.raised) =>
          \A k \in 1..Len(Q4Rows) :
              Q4Rows[k].num_linux_games
                  = Cardinality(RawLinuxOfYear(Q4Rows[k].release_year))

\* the same statement on the tables whose platform columns hold True and
\* False alone, or 1 and 0 alone
C24_FlagsOfCleanColumns ==
    (\A f \in PlatformFields : ColumnDtype(raw, f) \in {"bool", "int64"})
        => C24_PlatformFlagsFollowRawToken

\* a game of 2020 without a linux token, counted by Q4
C24_MissingLinuxCounted ==
    /\ last = "Q4"
    /\ Len(raw) = 1
    /\ raw[1].linux = T_Empty
    /\ df[1].linux
    /\ \E k \in 1..Len(Q4Rows) :
          Q4Rows[k].release_year = 2020 /\ Q4Rows[k].num_linux_games = 1

\* flags read from True, False, 1 and 0, and a Linux game counted by Q4
C24_CleanFlags ==
    /\ last = "Q4"
    /\ \A f \in PlatformFields : ColumnDtype(raw, f) \in {"bool", "int64"}
    /\ Len(raw) = 2
    /\ \E i \in 1..2 : df[i].linux
    /\ \E i \in 1..2 : ~df[i].linux
    /\ \E k \in 1..Len(Q4Rows) : Q4Rows[k].num_linux_games = 1

\* a header line that names each of the four columns by its canonical label or
\* by one of its aliases
AliasedHeader ==
    /\ header.positive_reviews \in {L_positive_reviews, T_Positive}
    /\ header.negative_reviews \in {L_negative_reviews, T_Negative}
    /\ header.publishers \in {L_publishers, T_Publisher_Name, T_Game_Publisher}
    /\ header.developers \in {L_developers, T_Developer_Name, T_Game_Developer}

\* C25: after the canonicalization of the labels every aliased header is
\* available under the label the queries look up: 'Positive' and 'Negative'
\* as positive_reviews and negative_reviews, the publisher and developer
\* aliases as publishers and developers, which Q1 and Q3 read
C25_AliasesReachQueryLabels ==
    /\ (pc = "loaded" /\ AliasedHeader) => columns = PlainHeader
    /\ (last \in {"Q1", "Q3"} /\ AliasedHeader) =>
          ~(result.raised /\ result.error = "KeyError")

\* the part of the statement on 'Positive' and 'Negative', and on labels that
\* differ from the canonical ones in case and blanks alone
C25_ReviewAliases ==
    pc = "loaded" =>
        /\ columns.positive_reviews = L_positive_reviews
        /\ columns.negative_reviews = L_negative_reviews
        /\ header.publishers \in {L_publishers, T_Publishers_Padded}
               => columns.publishers = L_publishers

\* the header 'Publisher Name' loaded under the label publisher, and Q3
\* raising KeyError on its lookup of publishers
C25_PublisherAliasLost ==
    /\ last = "Q3"
    /\ header.publishers = T_Publisher_Name
    /\ header.developers = L_developers
    /\ columns.publishers = L_publisher
    /\ result.raised /\ result.error = "KeyError"

\* the headers 'Positive' and 'Negative' loaded under positive_reviews and
\* negative_reviews, and Q3 returning a row
C25_ReviewAliasesFound ==
    /\ last = "Q3"
    /\ header.positive_reviews = T_Positive
    /\ header.negative_reviews = T_Negative
    /\ columns.positive_reviews = L_positive_reviews
    /\ ~result.raised
    /\ Len(Q3Rows) = 1

=============================================================================
